---- MODULE Spec2Model ----
(***************************************************************************)
(* Form-submission pipeline of the Next 14 / Drizzle / Zod starter:        *)
(* parseFormData (src/lib/zod/index.ts), ZodFormError                      *)
(* (src/server/errors/zod_errors.ts), the FormState constructors           *)
(* (src/server/state.ts), the useFormStateHook wrapper and the two server  *)
(* actions adminLogin and insertDog shown in the README.                   *)
(*                                                                         *)
(* JavaScript values are tagged records: `kind` says what the value is at  *)
(* run time, whatever TypeScript type a cast gives it.                     *)
(***************************************************************************)
EXTENDS Naturals, Sequences, FiniteSets

VARIABLES
    call,        \* LibSpec: the library call being made (function name and arguments)
    ret,         \* LibSpec: what the call returned (Pending before it returns)
    form,        \* the local `form` of parseFormData (Pending before it is built)
    handler,     \* Spec: the server action bound to the form
    formState,   \* Spec: the state held by useFormState
    formData,    \* Spec: the FormData of the submission in progress
    pc,          \* Spec: position inside the server action
    parsed,      \* Spec: the { data, errors } pair destructured by the action
    thrown,      \* Spec: the value travelling to the action's catch clause
    events,      \* Spec: collaborator calls of this submission, in order
    submissions  \* Spec: submissions made so far

vars == <<call, ret, form, handler, formState, formData, pc, parsed, thrown,
          events, submissions>>

libVars == <<call, ret, form>>
actionVars == <<handler, formState, formData, pc, parsed, thrown, events, submissions>>

----------------------------------------------------------------------------
(* Bounds *)

MaxEntries == 3       \* entries in a submitted FormData
MaxIssues == 3        \* issues in a ZodError handed to ZodFormError
MaxSubmissions == 2   \* submissions followed per form

----------------------------------------------------------------------------
(* Values *)

Undefined == [kind |-> "undefined"]
Pending == [kind |-> "pending"]

\* The TypeError the runtime raises on a property access through undefined.
TypeError == [kind |-> "TypeError"]

\* The error a failed database call throws.
PersistenceError == [kind |-> "Error", message |-> "persistence failed"]

EmptyProps == [k \in {} |-> ""]

Obj(props) == [kind |-> "object", props |-> props]

Return(v) == [threw |-> FALSE, value |-> v]
Throw(v) == [threw |-> TRUE, value |-> v]

FieldNames == {"username", "password", "name"}
FieldValues == {"", "secret"}

\* String length, for the strings the model submits.
StrLen(s) == CASE s = "" -> 0 [] s = "secret" -> 6

Entries == [name : FieldNames, value : FieldValues]

RECURSIVE SeqsUpTo(_, _)
SeqsUpTo(S, n) ==
    IF n = 0 THEN {<<>>}
    ELSE LET shorter == SeqsUpTo(S, n - 1)
         IN shorter \cup {Append(s, x) : s \in {t \in shorter : Len(t) = n - 1}, x \in S}

FormDatas == SeqsUpTo(Entries, MaxEntries)

----------------------------------------------------------------------------
(* Schemas *)

UsernameRequired == "Admin username is required."
PasswordRequired == "Admin password is required."

ZodObject(shape) == [kind |-> "ZodObject", shape |-> shape]

LoginFormSchema ==
    ZodObject(<<[name |-> "username", min |-> 0, message |-> UsernameRequired],
                [name |-> "password", min |-> 0, message |-> PasswordRequired]>>)

\* A schema whose fields must be non-empty: an input of parseFormData, which
\* takes any object schema.
NonEmptySchema ==
    ZodObject(<<[name |-> "username", min |-> 1, message |-> UsernameRequired],
                [name |-> "password", min |-> 1, message |-> PasswordRequired]>>)

\* The schema of the dog form.
DogFormSchema ==
    ZodObject(<<[name |-> "name", min |-> 1, message |-> "Dog name is required."]>>)

Schemas == {LoginFormSchema, NonEmptySchema, DogFormSchema}

\* z.string().min(n, {message}) on one key of the parsed object: a missing key
\* is an invalid_type issue ("Required") and the checks are not run.
StringIssues(field, input) ==
    IF field.name \notin DOMAIN input
    THEN <<[path |-> <<field.name>>, message |-> "Required"]>>
    ELSE IF StrLen(input[field.name]) < field.min
         THEN <<[path |-> <<field.name>>, message |-> field.message]>>
         ELSE <<>>

RECURSIVE ObjectIssues(_, _)
ObjectIssues(shape, input) ==
    IF shape = <<>> THEN <<>>
    ELSE StringIssues(Head(shape), input) \o ObjectIssues(Tail(shape), input)

ZodError(issues) == [kind |-> "ZodError", errors |-> issues]

\* z.object(shape).parse(input): every key of the shape is checked, unknown
\* keys are stripped, and all the issues are thrown together.
ZodObjectParse(schema, input) ==
    LET issues == ObjectIssues(schema.shape, input)
        keys == {schema.shape[i].name : i \in 1..Len(schema.shape)}
    IN IF issues # <<>>
       THEN Throw(ZodError(issues))
       ELSE Return(Obj([k \in keys |-> input[k]]))

\* (schema as Schema).parse(form): the cast does nothing at run time.
SchemaParse(schema, input) ==
    IF schema = Undefined THEN Throw(TypeError) ELSE ZodObjectParse(schema, input)

----------------------------------------------------------------------------
(* src/lib/zod/index.ts *)

ObjectSet(props, k, v) == [x \in (DOMAIN props) \cup {k} |-> IF x = k THEN v ELSE props[x]]

FirstEntryWins(entries) ==
    LET names == {entries[i].name : i \in 1..Len(entries)}
        first(n) == CHOOSE i \in 1..Len(entries) :
                        /\ entries[i].name = n
                        /\ \A j \in 1..(i - 1) : entries[j].name # n
    IN [n \in names |-> entries[first(n)].value]

\* Object.fromEntries(formData.entries()): the entries are assigned in order.
RECURSIVE ObjectFromEntries(_)
ObjectFromEntries(entries) ==
    IF entries = <<>> THEN EmptyProps
    ELSE LET last == entries[Len(entries)]
         IN ObjectSet(ObjectFromEntries(SubSeq(entries, 1, Len(entries) - 1)),
                      last.name, last.value)

ParseKeepingOnlyZodErrors(fd, schema) ==
    LET c == SchemaParse(schema, ObjectFromEntries(fd))
    IN IF c.threw
       THEN [data |-> Undefined,
             errors |-> IF c.value.kind = "ZodError" THEN c.value ELSE Undefined]
       ELSE [data |-> c.value, errors |-> Undefined]

parseFormData(fd, schema) ==
    LET c == SchemaParse(schema, ObjectFromEntries(fd))
    IN IF c.threw
       THEN [data |-> Undefined, errors |-> c.value]
       ELSE [data |-> c.value, errors |-> Undefined]

----------------------------------------------------------------------------
(* src/server/errors/zod_errors.ts *)

\* err.path[0] used as a property key: a missing element is the key "undefined".
PathKey(path) == IF path = <<>> THEN "undefined" ELSE path[1]

RECURSIVE AssignIfAbsent(_, _)
AssignIfAbsent(formError, issues) ==
    IF issues = <<>> THEN formError
    ELSE LET k == PathKey(Head(issues).path)
         IN AssignIfAbsent(IF k \in DOMAIN formError THEN formError
                           ELSE ObjectSet(formError, k, Head(issues).message),
                           Tail(issues))

\* errors.errors.map((err) => (formError[err.path[0]] = err.message))
RECURSIVE AssignEach(_, _)
AssignEach(formError, issues) ==
    IF issues = <<>> THEN formError
    ELSE AssignEach(ObjectSet(formError, PathKey(Head(issues).path), Head(issues).message),
                    Tail(issues))

ZodFormErrorFirstWins(errors) ==
    IF "errors" \notin DOMAIN errors
    THEN Throw(TypeError)
    ELSE Return(Obj(AssignIfAbsent(EmptyProps, errors.errors)))

\* A value with no `errors` property (anything that is not a ZodError) makes
\* `errors.errors.map` a call through undefined, which throws.
ZodFormError(errors) ==
    IF "errors" \notin DOMAIN errors
    THEN Throw(TypeError)
    ELSE Return(Obj(AssignEach(EmptyProps, errors.errors)))

----------------------------------------------------------------------------
(* src/server/state.ts *)

SuccessState(msg) == [state |-> "success", success |-> TRUE, messgae |-> msg]

FailState(errors) == [state |-> "fail", success |-> FALSE, errors |-> errors]

DefaultState == [state |-> "default"]

----------------------------------------------------------------------------
(* LibSpec: each exported function applied once to an input drawn from a     *)
(* bounded set.                                                              *)

IssuePaths == {<<>>, <<"username">>, <<"password">>, <<"username", "0">>}
IssueMessages == {"Required", UsernameRequired}
Issues == [path : IssuePaths, message : IssueMessages]
ZodErrors == {ZodError(i) : i \in SeqsUpTo(Issues, MaxIssues)}

SuccessMessages == {"", "Login: Success", " padded "}

FormErrorsInputs ==
    {Obj(f) : f \in UNION {[ks -> IssueMessages] : ks \in SUBSET {"username", "password"}}}

Calls ==
    [fn : {"ZodFormError"}, errors : ZodErrors]
    \cup [fn : {"parseFormData"}, formData : FormDatas, schema : Schemas \cup {Undefined}]
    \cup [fn : {"SuccessState"}, msg : SuccessMessages]
    \cup [fn : {"FailState"}, errors : FormErrorsInputs]
    \cup [fn : {"DefaultState"}]

IdleAction ==
    /\ handler = "none"
    /\ formState = DefaultState
    /\ formData = <<>>
    /\ pc = "idle"
    /\ parsed = Pending
    /\ thrown = Pending
    /\ events = <<>>
    /\ submissions = 0

LibInit ==
    /\ call \in Calls
    /\ ret = Pending
    /\ form = Pending
    /\ IdleAction

CallZodFormError ==
    /\ call.fn = "ZodFormError"
    /\ ret = Pending
    /\ ret' = ZodFormError(call.errors)
    /\ UNCHANGED <<call, form, actionVars>>

CallParseFormData ==
    /\ call.fn = "parseFormData"
    /\ ret = Pending
    /\ form' = ObjectFromEntries(call.formData)
    /\ ret' = Return(parseFormData(call.formData, call.schema))
    /\ UNCHANGED <<call, actionVars>>

CallSuccessState ==
    /\ call.fn = "SuccessState"
    /\ ret = Pending
    /\ ret' = Return(SuccessState(call.msg))
    /\ UNCHANGED <<call, form, actionVars>>

CallFailState ==
    /\ call.fn = "FailState"
    /\ ret = Pending
    /\ ret' = Return(FailState(call.errors))
    /\ UNCHANGED <<call, form, actionVars>>

CallDefaultState ==
    /\ call.fn = "DefaultState"
    /\ ret = Pending
    /\ ret' = Return(DefaultState)
    /\ UNCHANGED <<call, form, actionVars>>

LibNext ==
    \/ CallZodFormError
    \/ CallParseFormData
    \/ CallSuccessState
    \/ CallFailState
    \/ CallDefaultState

LibSpec == LibInit /\ [][LibNext]_vars

----------------------------------------------------------------------------
(* Spec: a form bound by useFormStateHook to one of the server actions,      *)
(* submitted MaxSubmissions times. The action runs as one asynchronous task: *)
(* decode, the database call it awaits, then the statements after it.        *)

Handlers == {"adminLogin", "insertDog"}

DOG_MUTATION_TAG == "dog"

HandlerSchema(h) == IF h = "adminLogin" THEN LoginFormSchema ELSE DogFormSchema

SuccessMessage(h) == IF h = "adminLogin" THEN "Login: Success" ELSE "Add new dog: Success"

DecodeFailedNever(r) == FALSE

\* if (errors)
DecodeFailed(r) == r.errors # Undefined

RevalidateBeforeBody(h, step) ==
    CASE step = "decode" -> IF h = "insertDog" THEN "revalidate" ELSE "persist"
      [] step = "revalidate" -> "persist"
      [] step = "persist" -> "return"

\* The order of the statements of the try block.
StepAfter(h, step) ==
    CASE step = "decode" -> "persist"
      [] step = "persist" -> IF h = "insertDog" THEN "revalidate" ELSE "return"
      [] step = "revalidate" -> "return"

Init ==
    /\ handler \in Handlers
    /\ formState = DefaultState
    /\ formData = <<>>
    /\ pc = "idle"
    /\ parsed = Pending
    /\ thrown = Pending
    /\ events = <<>>
    /\ submissions = 0
    /\ call = Pending
    /\ ret = Pending
    /\ form = Pending

\* The presentation layer calls formAction with the submitted FormData.
Submit(fd) ==
    /\ pc = "idle"
    /\ submissions < MaxSubmissions
    /\ submissions' = submissions + 1
    /\ formData' = fd
    /\ parsed' = Pending
    /\ thrown' = Pending
    /\ events' = <<>>
    /\ pc' = "decode"
    /\ UNCHANGED <<handler, formState, libVars>>

\* parseFormData, then `if (errors) throw ZodFormError(errors)`: whether
\* ZodFormError returns or throws, its value is what reaches the catch clause.
Decode ==
    /\ pc = "decode"
    /\ LET r == parseFormData(formData, HandlerSchema(handler))
       IN /\ parsed' = r
          /\ IF DecodeFailed(r)
             THEN /\ thrown' = ZodFormError(r.errors).value
                  /\ pc' = "catch"
             ELSE /\ thrown' = thrown
                  /\ pc' = StepAfter(handler, "decode")
    /\ UNCHANGED <<handler, formState, formData, events, submissions, libVars>>

\* The awaited database call resolves.
PersistOk ==
    /\ pc = "persist"
    /\ events' = Append(events, "persist:ok")
    /\ pc' = StepAfter(handler, "persist")
    /\ UNCHANGED <<handler, formState, formData, parsed, thrown, submissions, libVars>>

\* The awaited database call rejects: its error is thrown inside the try block.
PersistFail ==
    /\ pc = "persist"
    /\ events' = Append(events, "persist:error")
    /\ thrown' = PersistenceError
    /\ pc' = "catch"
    /\ UNCHANGED <<handler, formState, formData, parsed, submissions, libVars>>

\* revalidateTag(DOG_MUTATION_TAG)
Revalidate ==
    /\ pc = "revalidate"
    /\ events' = Append(events, DOG_MUTATION_TAG)
    /\ pc' = StepAfter(handler, "revalidate")
    /\ UNCHANGED <<handler, formState, formData, parsed, thrown, submissions, libVars>>

\* return SuccessState(...): useFormState replaces the state it holds.
ReturnSuccess ==
    /\ pc = "return"
    /\ formState' = SuccessState(SuccessMessage(handler))
    /\ pc' = "idle"
    /\ UNCHANGED <<handler, formData, parsed, thrown, events, submissions, libVars>>

\* catch (error) { return FailState(error as FormErrors) }
Catch ==
    /\ pc = "catch"
    /\ formState' = FailState(thrown)
    /\ pc' = "idle"
    /\ UNCHANGED <<handler, formData, parsed, thrown, events, submissions, libVars>>

Next ==
    \/ \E fd \in FormDatas : Submit(fd)
    \/ Decode
    \/ PersistOk
    \/ PersistFail
    \/ Revalidate
    \/ ReturnSuccess
    \/ Catch

Spec == Init /\ [][Next]_vars

----------------------------------------------------------------------------
(* Properties *)

Returned(fn) == call # Pending /\ call.fn = fn /\ ret # Pending

Finished == pc = "idle" /\ submissions > 0

IssueKey(issues, i) == PathKey(issues[i].path)

IsFormErrors(v) == v.kind = "object"

Occurs(e) == \E i \in 1..Len(events) : events[i] = e

C2_RevalidateOnlyAfterPersistOk ==
    \A i \in 1..Len(events) :
        events[i] = DOG_MUTATION_TAG =>
            /\ \E j \in 1..(i - 1) : events[j] = "persist:ok"
            /\ ~Occurs("persist:error")
            /\ parsed # Pending
            /\ parsed.errors = Undefined

C2_Witness ==
    /\ handler = "insertDog"
    /\ Finished
    /\ Occurs(DOG_MUTATION_TAG)
    /\ formState = SuccessState("Add new dog: Success")

\* C3: when decoding succeeded and the database call failed, the action
\* returns a fail state whose errors are a FormErrors with a single synthetic
\* entry, and not the raw error.
C3_PersistenceFailureIsSynthetic ==
    (Finished /\ Occurs("persist:error")) =>
        /\ formState.state = "fail"
        /\ IsFormErrors(formState.errors)
        /\ Cardinality(DOMAIN formState.errors.props) = 1
        /\ formState.errors # PersistenceError

\* C4: adminLogin, given an empty username, returns a fail state whose errors
\* map username to "Admin username is required.".
C4_EmptyUsernameRejected ==
    (/\ Finished
     /\ handler = "adminLogin"
     /\ "username" \in DOMAIN ObjectFromEntries(formData)
     /\ ObjectFromEntries(formData)["username"] = "") =>
        /\ parsed.errors # Undefined
        /\ \E i \in 1..Len(parsed.errors.errors) :
                parsed.errors.errors[i] =
                    [path |-> <<"username">>, message |-> UsernameRequired]
        /\ formState.state = "fail"
        /\ IsFormErrors(formState.errors)
        /\ "username" \in DOMAIN formState.errors.props
        /\ formState.errors.props["username"] = UsernameRequired

\* C5: every fail state an action returns carries a non-empty FormErrors.
C5_FailCarriesFormErrors ==
    (Finished /\ formState.state = "fail") =>
        /\ IsFormErrors(formState.errors)
        /\ DOMAIN formState.errors.props # {}

\* C6: parseFormData flattens the entries so that every submitted key is
\* present once with the value of its LAST occurrence, and that is the value
\* validated and returned.
C6_LastEntryWins ==
    Returned("parseFormData") =>
        LET fd == call.formData
            isLast(i) == \A j \in (i + 1)..Len(fd) : fd[j].name # fd[i].name
        IN /\ DOMAIN form = {fd[i].name : i \in 1..Len(fd)}
           /\ \A i \in 1..Len(fd) : isLast(i) => form[fd[i].name] = fd[i].value
           /\ (ret.value.data # Undefined) =>
                \A i \in 1..Len(fd) :
                    (isLast(i) /\ fd[i].name \in DOMAIN ret.value.data.props)
                        => ret.value.data.props[fd[i].name] = fd[i].value

C6_Witness ==
    /\ Returned("parseFormData")
    /\ ret.value.data # Undefined
    /\ \E i, j \in 1..Len(call.formData) :
        /\ i < j
        /\ call.formData[i].name = call.formData[j].name
        /\ call.formData[i].value # call.formData[j].value
        /\ call.formData[i].name \in DOMAIN ret.value.data.props

\* C7: parseFormData returns a pair with exactly one of data and errors
\* defined.
C7_ExactlyOnePopulated ==
    Returned("parseFormData") =>
        (ret.value.data = Undefined) # (ret.value.errors = Undefined)

C7_Witness ==
    /\ Returned("parseFormData")
    /\ call.schema = Undefined
    /\ ret.value.errors # Undefined

\* C8: without a schema, parseFormData does not report its failure as an
\* ordinary { data: undefined, errors } result, and returns no data.
C8_SchemaMissingIsNotAnErrResult ==
    (Returned("parseFormData") /\ call.schema = Undefined) =>
        /\ ret.value.data = Undefined
        /\ ret.value.errors = Undefined

\* C9: SuccessState(m) has state "success", a field `message` equal to m, and
\* no errors field.
C9_SuccessStateMessage ==
    Returned("SuccessState") =>
        /\ ret.value.state = "success"
        /\ "message" \in DOMAIN ret.value
        /\ ret.value.message = call.msg
        /\ "errors" \notin DOMAIN ret.value

\* C10: when decoding fails the action returns FailState(ZodFormError(errors))
\* and makes no database call and no revalidation; the database call is made
\* only after decoding succeeded, and at most once per submission.
C10_NoPersistenceOnDecodeError ==
    /\ (Finished /\ parsed.errors # Undefined) =>
            /\ events = <<>>
            /\ ~ZodFormError(parsed.errors).threw
            /\ formState = FailState(ZodFormError(parsed.errors).value)
    /\ (events # <<>>) => (parsed # Pending /\ parsed.errors = Undefined)
    /\ Cardinality({i \in 1..Len(events) :
                        events[i] \in {"persist:ok", "persist:error"}}) <= 1

C10_Witness ==
    /\ Finished
    /\ events = <<>>
    /\ parsed.errors # Undefined
    /\ Len(parsed.errors.errors) > 0
    /\ formState.state = "fail"

====
